---------------------------- MODULE Spec2Model ----------------------------
(***************************************************************************)
(* A model of the string-simple crate (src/src/lib.rs): the compare        *)
(* module's scalar and vectorised searches and counters, modify::replace   *)
(* and builder::StringBuilder.                                             *)
(*                                                                         *)
(* Strings are sequences of bytes (0..255); a char is its code point.      *)
(* Positions are 0-based as in the source; At(s, i) reads byte i.  A u8x64 *)
(* vector is a sequence of 64 bytes, lane l of the source being element    *)
(* l+1.  A call's outcome is a record: kind "ok" with the returned value,  *)
(* "assert" for a failed assert!, "index" for a slice index out of range,  *)
(* "crash" for an abort on out-of-bounds unchecked access.                 *)
(***************************************************************************)
EXTENDS Integers, Sequences, FiniteSets, TLC

VARIABLES
    op,           \* the operation that ran last ("idle" before any)
    haystack,     \* the base / haystack argument, as bytes
    needle,       \* the find / needle argument, as bytes
    chars,        \* the chars / char_group argument, a list of code points
    replacement,  \* modify::replace's replace argument, as bytes
    ret,          \* the outcome of the operation that ran last
    full_string,  \* StringBuilder.full_string
    current_len,  \* StringBuilder.current_len
    appended      \* history: the values appended to the builder, in call order

vars == <<op, haystack, needle, chars, replacement, ret,
          full_string, current_len, appended>>

----------------------------------------------------------------------------
(* Bounds of the model and constants of the program                        *)

\* Width of a u8x64 vector: the chunk size of every vectorised scan.
ChunkWidth == 64

\* A u8 lane holds values modulo 2^8.
U8Modulus == 256

\* Longest free suffix of a generated haystack.
MaxTail == 2

\* Longest generated needle.
MaxNeedle == 2

\* A generated haystack is a run of filler that ends at or just before the
\* first or the MaxChunks-th chunk boundary (or is empty), followed by a
\* free suffix.
MaxChunks == 2

\* Longest generated list of query characters (chars, char_group).
MaxQuery == 2

\* Longest generated base of replace and haystack of the group count.
MaxBase == 3

\* Longest generated replacement.
MaxRepl == 1

\* Most appends to one builder.
MaxAppends == 3

\* Longest needle laid across a chunk boundary.
MaxStraddle == 3

\* Longest text after a needle laid across a chunk boundary.
MaxSuffix == 1

\* The bytes strings are drawn from: NUL, 'a', 'b'.
Alphabet == {0, 97, 98}

\* The byte the filler of a long haystack repeats: 'a'.
Fill == CHOOSE b \in Alphabet : b = 97

\* The characters queries are drawn from: NUL, 'a', 'b' and U+0161, whose
\* low byte is that of 'a'.
QueryChars == {0, 97, 98, 353}

\* The values appended to a builder: integers, chars (one of them outside
\* ASCII) and strings (one of them empty).
AppendValues ==
    {[type |-> "int", val |-> 0], [type |-> "int", val |-> 1234],
     [type |-> "int", val |-> -7], [type |-> "char", val |-> 99],
     [type |-> "char", val |-> 233], [type |-> "str", val |-> <<>>],
     [type |-> "str", val |-> <<116, 101>>]}

----------------------------------------------------------------------------
(* Helpers: byte strings, outcomes, vectors                                *)

At(s, i) == s[i + 1]

\* s[from..to) of the source
Slice(s, from, to) == SubSeq(s, from + 1, to)

Min(a, b) == IF a < b THEN a ELSE b

Range(s) == {s[i] : i \in 1..Len(s)}

Rep(b, n) == [i \in 1..n |-> b]

RECURSIVE StrsOfLen(_, _)
StrsOfLen(S, n) ==
    IF n = 0 THEN {<<>>}
    ELSE {Append(s, b) : s \in StrsOfLen(S, n - 1), b \in S}

StrsUpTo(S, n) == UNION {StrsOfLen(S, k) : k \in 0..n}

Ok(v) == [kind |-> "ok", value |-> v]
AssertFailed == [kind |-> "assert", value |-> <<>>]
IndexPanic == [kind |-> "index", value |-> <<>>]
Crash == [kind |-> "crash", value |-> <<>>]
NoRet == [kind |-> "none", value |-> <<>>]

Lanes == 1..ChunkWidth

\* u8x64::splat
splat(b) == [l \in Lanes |-> b]

\* a.simd_eq(b).to_int().cast(): a matching lane is -1, cast to u8 255
simd_eq_cast(a, b) == [l \in Lanes |-> IF a[l] = b[l] THEN U8Modulus - 1 ELSE 0]

\* lane-wise wrapping subtraction of u8 vectors
simd_sub(a, b) == [l \in Lanes |-> (a[l] - b[l]) % U8Modulus]

\* Simd::reduce_max: the largest lane
reduce_max(v) == CHOOSE m \in Range(v) : \A l \in Lanes : v[l] <= m

\* The sum of lanes lo..hi, halving the range (the sum is of usize values:
\* it does not wrap).
RECURSIVE SumLanes(_, _, _)
SumLanes(v, lo, hi) ==
    IF lo = hi THEN v[lo]
    ELSE LET mid == (lo + hi) \div 2
         IN SumLanes(v, lo, mid) + SumLanes(v, mid + 1, hi)

\* copy every lane to usize and sum
simd_sum_x64(u8s) == SumLanes(u8s, 1, ChunkWidth)

\* slice.get_unchecked(offset..) with offset past the end of the slice is
\* undefined behaviour: a build with the unchecked-access checks aborts; one
\* without wraps the length and reads 64 bytes beyond the buffer.  An outcome
\* says which, and what byte the memory beyond holds.
OobOutcomes ==
    {[abort |-> TRUE, byte |-> 0]}
        \cup {[abort |-> FALSE, byte |-> b] : b \in Alphabet}

\* The next 64 bytes of the slice from offset, zero-padded when fewer than
\* 64 remain; oob_byte in every lane when the offset is past the end.
simd_u8x64_from_offset(slice, offset, oob_byte) ==
    IF offset > Len(slice)
    THEN splat(oob_byte)
    ELSE [l \in Lanes |->
            IF offset + l <= Len(slice) THEN slice[offset + l] ELSE 0]

----------------------------------------------------------------------------
(* compare::find_all_exact                                                 *)

\* The (true, true) arm of the inner loop is reached at current_base_pos:
\* the value is the end of the match, or -1 when the loop leaves without one.
RECURSIVE find_all_exact_inner(_, _, _, _)
find_all_exact_inner(base, find, current_find_pos, current_base_test) ==
    IF current_find_pos < Len(find) /\ current_base_test < Len(base)
    THEN IF At(base, current_base_test) = At(find, current_find_pos)
         THEN IF current_find_pos = Len(find) - 1
              THEN current_base_test + 1
              ELSE find_all_exact_inner(base, find, current_find_pos + 1,
                                        current_base_test + 1)
         ELSE -1
    ELSE -1

\* Mutation: resume after the matched span instead of one byte on.
find_all_exact_advance_skip(current_base_pos, match_end) ==
    IF match_end >= 0 THEN match_end ELSE current_base_pos + 1

\* current_base_pos += 1, whether or not a match was pushed
find_all_exact_advance(current_base_pos, match_end) ==
    current_base_pos + 1

\* One pass of the outer loop's body.
find_all_exact_body(base, find, st) ==
    LET match_end ==
            find_all_exact_inner(base, find, 0, st.current_base_pos)
    IN [current_base_pos |->
            find_all_exact_advance(st.current_base_pos, match_end),
        matches |->
            IF match_end >= 0
            THEN Append(st.matches, <<st.current_base_pos, match_end>>)
            ELSE st.matches]

\* The outer while loop from state st, for at most n passes: the first half
\* of the passes, then the rest (the evaluation stays shallow).
RECURSIVE find_all_exact_outer(_, _, _, _)
find_all_exact_outer(base, find, st, n) ==
    IF ~(st.current_base_pos < Len(base)) THEN st
    ELSE IF n <= 1 THEN find_all_exact_body(base, find, st)
    ELSE find_all_exact_outer(base, find,
             find_all_exact_outer(base, find, st, n \div 2), n - n \div 2)

\* current_base_pos grows with every pass: Len(base) passes end the loop.
find_all_exact(base, find) ==
    IF ~(Len(base) >= Len(find)) THEN AssertFailed
    ELSE Ok(find_all_exact_outer(base, find,
                [current_base_pos |-> 0, matches |-> <<>>],
                Len(base)).matches)

----------------------------------------------------------------------------
(* compare::contains                                                       *)

\* Mutation: the inner loop stops one byte before the end of the haystack.
contains_inner_cond_short(hay, ndl, current_find_pos, base_pos_test) ==
    current_find_pos < Len(ndl) /\ base_pos_test + 1 < Len(hay)

\* current_find_pos < needle.len() && base_pos_test < haystack.len()
contains_inner_cond(hay, ndl, current_find_pos, base_pos_test) ==
    current_find_pos < Len(ndl) /\ base_pos_test < Len(hay)

RECURSIVE contains_inner(_, _, _, _)
contains_inner(hay, ndl, current_find_pos, base_pos_test) ==
    IF contains_inner_cond(hay, ndl, current_find_pos, base_pos_test)
    THEN IF At(hay, base_pos_test) = At(ndl, current_find_pos)
         THEN IF current_find_pos = Len(ndl) - 1
              THEN TRUE
              ELSE contains_inner(hay, ndl, current_find_pos + 1,
                                  base_pos_test + 1)
         ELSE FALSE
    ELSE FALSE

\* One pass of the outer loop's body: `return true` sets returned.
contains_body(hay, ndl, st) ==
    IF contains_inner(hay, ndl, 0, st.current_base_pos)
    THEN [current_base_pos |-> st.current_base_pos, returned |-> TRUE]
    ELSE [current_base_pos |-> st.current_base_pos + 1, returned |-> FALSE]

\* The outer while loop from state st, for at most n passes.
RECURSIVE contains_outer(_, _, _, _)
contains_outer(hay, ndl, st, n) ==
    IF st.returned \/ ~(st.current_base_pos < Len(hay)) THEN st
    ELSE IF n <= 1 THEN contains_body(hay, ndl, st)
    ELSE contains_outer(hay, ndl,
             contains_outer(hay, ndl, st, n \div 2), n - n \div 2)

\* The scan itself: true from `return true`, false once the loop is left.
contains_scan(hay, ndl) ==
    Ok(contains_outer(hay, ndl,
           [current_base_pos |-> 0, returned |-> FALSE], Len(hay)).returned)

\* Mutation: the assert is missing.
contains_unchecked(hay, ndl) == contains_scan(hay, ndl)

contains(hay, ndl) ==
    IF ~(Len(hay) >= Len(ndl)) THEN AssertFailed
    ELSE contains_scan(hay, ndl)

----------------------------------------------------------------------------
(* compare::contains_simd                                                  *)

\* The verification loop of one chunk: "found", "none" (the loop ends or
\* breaks) or "index" (the slice haystack[offset+i..offset+i+needle_len]
\* ends past the haystack).
contains_simd_verify_body(hay, ndl, offset, st) ==
    IF st.i + Len(ndl) > Len(hay) THEN [i |-> st.i, r |-> "none"]
    ELSE IF offset + st.i + Len(ndl) > Len(hay) THEN [i |-> st.i, r |-> "index"]
    ELSE IF Slice(hay, offset + st.i, offset + st.i + Len(ndl)) = ndl
    THEN [i |-> st.i, r |-> "found"]
    ELSE [i |-> st.i + 1, r |-> "scan"]

\* The for loop over i from state st, for at most n passes.
RECURSIVE contains_simd_verify_loop(_, _, _, _, _)
contains_simd_verify_loop(hay, ndl, offset, st, n) ==
    IF st.r # "scan" \/ ~(st.i < Min(ChunkWidth, Len(hay) - offset)) THEN st
    ELSE IF n <= 1 THEN contains_simd_verify_body(hay, ndl, offset, st)
    ELSE contains_simd_verify_loop(hay, ndl, offset,
             contains_simd_verify_loop(hay, ndl, offset, st, n \div 2),
             n - n \div 2)

contains_simd_verify(hay, ndl, offset) ==
    LET st == contains_simd_verify_loop(hay, ndl, offset,
                  [i |-> 0, r |-> "scan"], ChunkWidth)
    IN IF st.r = "scan" THEN "none" ELSE st.r

RECURSIVE contains_simd_chunks(_, _, _)
contains_simd_chunks(hay, ndl, loop_index) ==
    LET loops == (Len(hay) + 63) \div ChunkWidth
        first_byte == At(ndl, 0)
        offset == loop_index * ChunkWidth
        chunk == simd_u8x64_from_offset(hay, offset, 0)
        compare_mask == simd_eq_cast(chunk, splat(first_byte))
    IN IF loop_index >= loops THEN Ok(FALSE)
       ELSE IF reduce_max(compare_mask) = 0
            THEN contains_simd_chunks(hay, ndl, loop_index + 1)
            ELSE LET r == contains_simd_verify(hay, ndl, offset)
                 IN IF r = "found" THEN Ok(TRUE)
                    ELSE IF r = "index" THEN IndexPanic
                    ELSE contains_simd_chunks(hay, ndl, loop_index + 1)

\* hay and ndl are the bytes of the arguments' textual forms.
contains_simd(hay, ndl) ==
    IF ~(Len(hay) >= Len(ndl) /\ Len(ndl) # 0) THEN AssertFailed
    ELSE contains_simd_chunks(hay, ndl, 0)

----------------------------------------------------------------------------
(* compare::substring_count_simd                                           *)

\* The while loop of one chunk: the lanes whose total equals the new maximum
\* (none when the loop ends without counting) and their number, which is what
\* the code adds to count; or a crash.
RECURSIVE substring_count_simd_while(_, _, _, _, _, _, _, _)
substring_count_simd_while(hay, ndl, w, chunk_total, last_max, current_max, sub_offset, needle_pos) ==
    IF ~(last_max < current_max /\ needle_pos < Len(ndl))
    THEN [kind |-> "ok", value |-> 0, lanes |-> {}]
    ELSE IF sub_offset > Len(hay) /\ w.abort THEN Crash
    ELSE LET res == simd_eq_cast(
                        simd_u8x64_from_offset(hay, sub_offset, w.byte),
                        splat(At(ndl, needle_pos)))
             total == simd_sub(chunk_total, res)
             new_max == reduce_max(total)
         IN IF new_max > current_max /\ needle_pos = Len(ndl) - 1
            THEN LET full == {l \in Lanes : total[l] = new_max % U8Modulus}
                 IN [kind |-> "ok", value |-> Cardinality(full),
                     lanes |-> full]
            ELSE substring_count_simd_while(hay, ndl, w, total, current_max,
                                            new_max, sub_offset + 1,
                                            needle_pos + 1)

\* Mutation: every chunk after the first is skipped.
substring_count_simd_loops_one(haystack_len) == Min(haystack_len, 1)

\* let loops = (haystack_len + 63) / 64
substring_count_simd_loops(haystack_len) == (haystack_len + 63) \div ChunkWidth

RECURSIVE substring_count_simd_chunks(_, _, _, _, _)
substring_count_simd_chunks(hay, ndl, w, chunk_index, count) ==
    LET first_byte == At(ndl, 0)
        offset == chunk_index * ChunkWidth
        res == simd_eq_cast(simd_u8x64_from_offset(hay, offset, w.byte),
                            splat(first_byte))
        chunk_total == simd_sub(splat(0), res)
    IN IF chunk_index >= substring_count_simd_loops(Len(hay)) THEN Ok(count)
       ELSE IF reduce_max(chunk_total) = 0
            THEN substring_count_simd_chunks(hay, ndl, w, chunk_index + 1,
                                             count)
            ELSE LET r == substring_count_simd_while(hay, ndl, w, chunk_total,
                                                     0, 1, offset + 1, 1)
                 IN IF r.kind = "crash" THEN Crash
                    ELSE substring_count_simd_chunks(hay, ndl, w,
                             chunk_index + 1, count + r.value)

substring_count_simd(hay, ndl, w) ==
    IF ~(Len(hay) >= Len(ndl) /\ Len(ndl) > 0) THEN AssertFailed
    ELSE substring_count_simd_chunks(hay, ndl, w, 0, 0)

\* The haystack positions of the lanes that the chunks up to the first crash
\* add to count (lane l of the chunk at offset stands for offset + l - 1).
substring_count_simd_counted(hay, ndl, w) ==
    LET lanes_of(chunk_index) ==
            LET offset == chunk_index * ChunkWidth
                res == simd_eq_cast(
                           simd_u8x64_from_offset(hay, offset, w.byte),
                           splat(At(ndl, 0)))
                chunk_total == simd_sub(splat(0), res)
            IN IF reduce_max(chunk_total) = 0 THEN {}
               ELSE LET r == substring_count_simd_while(hay, ndl, w,
                                 chunk_total, 0, 1, offset + 1, 1)
                    IN IF r.kind = "crash" THEN {}
                       ELSE {offset + l - 1 : l \in r.lanes}
    IN UNION {lanes_of(chunk_index) :
                 chunk_index \in 0..(substring_count_simd_loops(Len(hay)) - 1)}

----------------------------------------------------------------------------
(* compare::count_chars, compare::count_chars_simd                         *)

\* `byte as char`: the code point with the byte's value
U8AsChar(b) == b

\* `char as u8`: the code point truncated to its low 8 bits
CharAsU8(c) == c % U8Modulus

\* String::push(char), char::to_string: the UTF-8 encoding of a code point
\* (one byte below 0x80, two below 0x800)
Utf8(c) ==
    IF c < 128 THEN <<c>> ELSE <<192 + (c \div 64), 128 + (c % 64)>>

EmptyMap == [k \in {} |-> 0]

\* HashMap::insert: the value of an existing key is replaced
MapInsert(m, k, v) ==
    [x \in DOMAIN m \cup {k} |-> IF x = k THEN v ELSE m[x]]

\* The while loop over pos from state st, for at most n passes.
RECURSIVE count_chars_scan(_, _, _, _)
count_chars_scan(bytes, c_char, st, n) ==
    IF ~(st.pos < Len(bytes)) THEN st
    ELSE IF n <= 1
    THEN [pos |-> st.pos + 1,
          count |-> IF c_char = U8AsChar(At(bytes, st.pos))
                    THEN st.count + 1 ELSE st.count]
    ELSE count_chars_scan(bytes, c_char,
             count_chars_scan(bytes, c_char, st, n \div 2), n - n \div 2)

count_chars_one(bytes, c_char) ==
    count_chars_scan(bytes, c_char, [pos |-> 0, count |-> 0], Len(bytes)).count

\* Mutation: a character that does not occur gets no entry.
count_chars_insert_nonzero(char_count, c_char, count) ==
    IF count = 0 THEN char_count ELSE MapInsert(char_count, c_char, count)

\* char_count.insert(*c_char, count)
count_chars_insert(char_count, c_char, count) ==
    MapInsert(char_count, c_char, count)

RECURSIVE count_chars_each(_, _, _, _)
count_chars_each(bytes, cs, k, char_count) ==
    IF k > Len(cs) THEN char_count
    ELSE count_chars_each(bytes, cs, k + 1,
             count_chars_insert(char_count, cs[k],
                                count_chars_one(bytes, cs[k])))

count_chars(base, cs) == Ok(count_chars_each(base, cs, 1, EmptyMap))

\* loops = haystack.len() / 64 + 1 chunks, each added lane-wise to the u8
\* counters; the offset never passes the end of the haystack.
needle_count_simd_body(hay, ndl, st) ==
    LET res == simd_eq_cast(simd_u8x64_from_offset(hay, st.offset, 0),
                            splat(ndl))
        counts == simd_sub(st.counts, res)
    \* (the comparison makes TLC compute the lanes at every pass: left pending,
    \* the subtractions of a long haystack nest too deep to evaluate)
    IN [k |-> st.k + 1,
        counts |-> IF counts = counts THEN counts ELSE st.counts,
        offset |-> st.offset + ChunkWidth]

\* The for loop from state st (k passes made), for at most n passes.
RECURSIVE needle_count_simd_loop(_, _, _, _, _)
needle_count_simd_loop(hay, ndl, loops, st, n) ==
    IF ~(st.k < loops) THEN st
    ELSE IF n <= 1 THEN needle_count_simd_body(hay, ndl, st)
    ELSE needle_count_simd_loop(hay, ndl, loops,
             needle_count_simd_loop(hay, ndl, loops, st, n \div 2),
             n - n \div 2)

needle_count_simd(hay, ndl) ==
    LET loops == Len(hay) \div ChunkWidth + 1
    IN simd_sum_x64(
           needle_count_simd_loop(hay, ndl, loops,
               [k |-> 0, counts |-> splat(0), offset |-> 0], loops).counts)

RECURSIVE count_chars_simd_each(_, _, _, _)
count_chars_simd_each(hay, cs, k, needles) ==
    IF k > Len(cs) THEN needles
    ELSE count_chars_simd_each(hay, cs, k + 1,
             MapInsert(needles, cs[k],
                       needle_count_simd(hay, CharAsU8(cs[k]))))

count_chars_simd(base, cs) == Ok(count_chars_simd_each(base, cs, 1, EmptyMap))

----------------------------------------------------------------------------
(* compare::substring_char_group_count                                     *)

\* Mutation: only the last byte of the span is looked at.
SliceContains_last(hay, current, end_pos, byte) ==
    At(hay, end_pos - 1) = byte

\* haystack[current..end_pos].contains(&byte)
SliceContains(hay, current, end_pos, byte) ==
    \E i \in current..(end_pos - 1) : At(hay, i) = byte

RECURSIVE group_found_count_down(_, _, _, _, _, _)
group_found_count_down(hay, char_group, k, current, end_pos, found_count_down) ==
    IF k > Len(char_group) THEN found_count_down
    ELSE group_found_count_down(hay, char_group, k + 1, current, end_pos,
             IF SliceContains(hay, current, end_pos, CharAsU8(char_group[k]))
             THEN found_count_down - 1
             ELSE found_count_down)

\* Mutation: a span qualifies as soon as one character of the group is in it.
group_qualifies_any(hay, char_group, current, end_pos) ==
    group_found_count_down(hay, char_group, 1, current, end_pos,
                           Len(char_group)) < Len(char_group)
        \/ Len(char_group) = 0

\* found_count_down == 0 after the loop over the group
group_qualifies(hay, char_group, current, end_pos) ==
    group_found_count_down(hay, char_group, 1, current, end_pos,
                           Len(char_group)) = 0

\* the match on (found_count_down == 0, sub_byte_count.get(..))
group_tally(hay, char_group, current, end_pos, sub_byte_count) ==
    LET key == Slice(hay, current, end_pos)
    IN IF group_qualifies(hay, char_group, current, end_pos)
       THEN IF key \in DOMAIN sub_byte_count
            THEN MapInsert(sub_byte_count, key, sub_byte_count[key] + 1)
            ELSE MapInsert(sub_byte_count, key, 1)
       ELSE sub_byte_count

\* The ends the inner while tallies for the start current: end_pos runs from
\* haystack.len() down to current + 1 and is tallied when the span qualifies.
group_tallied_ends(hay, char_group, current) ==
    {end_pos \in (current + 1)..Len(hay) :
        group_qualifies(hay, char_group, current, end_pos)}

RECURSIVE group_shrink(_, _, _, _, _)
group_shrink(hay, char_group, current, end_pos, sub_byte_count) ==
    IF current < end_pos
    THEN group_shrink(hay, char_group, current, end_pos - 1,
             group_tally(hay, char_group, current, end_pos, sub_byte_count))
    ELSE sub_byte_count

RECURSIVE group_starts(_, _, _, _)
group_starts(hay, char_group, base_pos, sub_byte_count) ==
    IF base_pos < Len(hay)
    THEN group_starts(hay, char_group, base_pos + 1,
             group_shrink(hay, char_group, base_pos, Len(hay), sub_byte_count))
    ELSE sub_byte_count

\* The final loop copies every (bytes, count) entry into a map keyed by the
\* same bytes as a String.
substring_char_group_count(base, char_group) ==
    Ok(group_starts(base, char_group, 0, EmptyMap))

----------------------------------------------------------------------------
(* modify::replace                                                         *)

\* sub_str_bytes.len() < base_str_bytes.len() - current_base_pos
replace_room(sub_len, base_len, current_base_pos) ==
    sub_len < base_len - current_base_pos

\* The inner loop at current_base_pos: what it appends to replaced_string
\* and where it leaves current_base_pos.
RECURSIVE replace_inner(_, _, _, _, _, _)
replace_inner(base, find, repl, current_base_pos, current_sub_pos, current_base_test) ==
    IF current_sub_pos < Len(find) /\ current_base_test < Len(base)
    THEN LET eq == At(base, current_base_test) = At(find, current_sub_pos)
             last == current_sub_pos = Len(find) - 1
             room == replace_room(Len(find), Len(base), current_base_pos)
         IN IF eq /\ last /\ room
            THEN [out |-> repl, pos |-> current_base_test]
            ELSE IF eq /\ ~last /\ room
            THEN replace_inner(base, find, repl, current_base_pos,
                               current_sub_pos + 1, current_base_test + 1)
            ELSE [out |-> Utf8(U8AsChar(At(base, current_base_pos))),
                  pos |-> current_base_pos]
    ELSE [out |-> <<>>, pos |-> current_base_pos]

RECURSIVE replace_outer(_, _, _, _, _)
replace_outer(base, find, repl, current_base_pos, replaced_string) ==
    IF current_base_pos < Len(base)
    THEN LET r == replace_inner(base, find, repl, current_base_pos, 0,
                                current_base_pos)
         IN replace_outer(base, find, repl, r.pos + 1,
                          replaced_string \o r.out)
    ELSE replaced_string

\* The outcome's value is what base holds after the call.
replace(base, find, repl) ==
    IF ~(Len(base) >= Len(find)) THEN AssertFailed
    ELSE Ok(replace_outer(base, find, repl, 0, <<>>))

----------------------------------------------------------------------------
(* builder::StringBuilder                                                  *)

RECURSIVE Digits(_)
Digits(n) ==
    IF n < 10 THEN <<48 + n>> ELSE Append(Digits(n \div 10), 48 + (n % 10))

\* ToString of the values a caller appends: an integer prints in decimal
\* with a leading '-' when negative, a char as its UTF-8 bytes, a string as
\* itself.
to_string(t) ==
    IF t.type = "int"
    THEN IF t.val < 0 THEN <<45>> \o Digits(-t.val) ELSE Digits(t.val)
    ELSE IF t.type = "char" THEN Utf8(t.val)
    ELSE t.val

\* Mutation: the new text is put in front of the old.
append_buf_front(old, str) == str \o old

\* buf.push_str(self.full_string); buf.push_str(str)
append_buf(old, str) == old \o str

\* Mutation: build hands the buffer over and leaves the builder empty.
build_keeps_nothing(old) == <<>>

\* build takes &self: full_string is cloned, the builder keeps it
build_keeps(old) == old

----------------------------------------------------------------------------
(* The state machines: the arguments are chosen, then an operation runs;   *)
(* a builder is created, then appended to and built in any order            *)

\* Lengths of the filler: none, or up to the first or the MaxChunks-th
\* chunk boundary less 0..MaxTail.
PadLens ==
    {0} \cup {c * ChunkWidth - d : c \in {1, MaxChunks}, d \in 0..MaxTail}

Haystacks ==
    {Rep(Fill, k) \o t : k \in PadLens, t \in StrsUpTo(Alphabet, MaxTail)}

Needles == StrsUpTo(Alphabet, MaxNeedle)

Queries == StrsUpTo(QueryChars, MaxQuery)

NewBuilder ==
    /\ full_string = <<>>
    /\ current_len = 0
    /\ appended = <<>>

builder_vars == <<full_string, current_len, appended>>
arg_vars == <<haystack, needle, chars, replacement>>

InitSearch ==
    /\ op = "idle" /\ ret = NoRet
    /\ haystack \in Haystacks
    /\ needle \in Needles
    /\ chars = <<>>
    /\ replacement = <<>>
    /\ NewBuilder

\* Haystacks with the needle laid across the boundary of two chunks: the
\* needle starts below a multiple of 64 and ends after it.
InitStraddle ==
    /\ op = "idle" /\ ret = NoRet
    /\ needle \in UNION {StrsOfLen(Alphabet, n) : n \in 2..MaxStraddle}
    /\ \E c \in 1..MaxChunks, d \in 1..(MaxStraddle - 1) :
       \E t \in StrsUpTo(Alphabet, MaxSuffix) :
           /\ d < Len(needle)
           /\ haystack = Rep(Fill, c * ChunkWidth - d) \o needle \o t
    /\ chars = <<>>
    /\ replacement = <<>>
    /\ NewBuilder

\* Haystacks of 256 chunks, give or take a few bytes, that hold the same
\* byte at every position but the last few; one character is queried.
InitWrap ==
    /\ op = "idle" /\ ret = NoRet
    /\ \E d \in 0..MaxTail, t \in StrsUpTo(Alphabet, MaxTail) :
           haystack = Rep(Fill, U8Modulus * ChunkWidth - d) \o t
    /\ needle = <<>>
    /\ chars \in StrsOfLen(QueryChars, 1)
    /\ replacement = <<>>
    /\ NewBuilder

InitCount ==
    /\ op = "idle" /\ ret = NoRet
    /\ haystack \in Haystacks
    /\ needle = <<>>
    /\ chars \in Queries
    /\ replacement = <<>>
    /\ NewBuilder

InitGroup ==
    /\ op = "idle" /\ ret = NoRet
    /\ haystack \in StrsUpTo(Alphabet, MaxBase + 1)
    /\ needle = <<>>
    /\ chars \in Queries
    /\ replacement = <<>>
    /\ NewBuilder

InitReplace ==
    /\ op = "idle" /\ ret = NoRet
    /\ haystack \in StrsUpTo(Alphabet, MaxBase)
    /\ needle \in Needles
    /\ chars = <<>>
    /\ replacement \in StrsUpTo(Alphabet, MaxRepl)
    /\ NewBuilder

InitBuilder ==
    /\ op = "new" /\ ret = NoRet
    /\ haystack = <<>>
    /\ needle = <<>>
    /\ chars = <<>>
    /\ replacement = <<>>
    /\ NewBuilder

Call(name, outcome) ==
    /\ op = "idle"
    /\ op' = name
    /\ ret' = outcome
    /\ UNCHANGED <<arg_vars, builder_vars>>

FindAllExact == Call("find_all_exact", find_all_exact(haystack, needle))

Contains == Call("contains", contains(haystack, needle))

ContainsSimd == Call("contains_simd", contains_simd(haystack, needle))

\* A run that does not crash under the aborting outcome made no
\* out-of-bounds read: it is the outcome of every build.  One that does
\* has one outcome per build.
SubstringCountSimd ==
    LET checked == substring_count_simd(haystack, needle,
                                        [abort |-> TRUE, byte |-> 0])
    IN IF checked.kind # "crash"
       THEN Call("substring_count_simd", checked)
       ELSE \E w \in OobOutcomes :
                Call("substring_count_simd",
                     substring_count_simd(haystack, needle, w))

CountChars == Call("count_chars", count_chars(haystack, chars))

CountCharsSimd == Call("count_chars_simd", count_chars_simd(haystack, chars))

SubstringCharGroupCount ==
    Call("substring_char_group_count",
         substring_char_group_count(haystack, chars))

\* replace leaves its result in base; ret holds it, haystack keeps the
\* argument as it was passed.
Replace == Call("replace", replace(haystack, needle, replacement))

BuilderAppend ==
    \E t \in AppendValues :
        /\ op \in {"new", "append", "build"}
        /\ Len(appended) < MaxAppends
        /\ LET str == to_string(t)
               len == current_len + Len(str)
           IN /\ full_string' = append_buf(full_string, str)
              /\ current_len' = len
        /\ appended' = Append(appended, t)
        /\ op' = "append"
        /\ UNCHANGED <<arg_vars, ret>>

BuilderBuild ==
    /\ op \in {"new", "append", "build"}
    /\ ret' = Ok(full_string)
    /\ full_string' = build_keeps(full_string)
    /\ op' = "build"
    /\ UNCHANGED <<arg_vars, current_len, appended>>

NextSearch == FindAllExact \/ Contains \/ ContainsSimd \/ SubstringCountSimd

NextStraddle == ContainsSimd \/ SubstringCountSimd

NextCount == CountChars \/ CountCharsSimd

NextGroup == SubstringCharGroupCount

NextReplace == Replace

NextBuilder == BuilderAppend \/ BuilderBuild

\* One specification per family of operations: its arguments are drawn from
\* the family's sets, then its operations run on them.
SpecSearch == InitSearch /\ [][NextSearch]_vars

SpecStraddle == InitStraddle /\ [][NextStraddle]_vars

SpecCount == InitCount /\ [][NextCount]_vars

SpecWrap == InitWrap /\ [][NextCount]_vars

SpecGroup == InitGroup /\ [][NextGroup]_vars

SpecReplace == InitReplace /\ [][NextReplace]_vars

SpecBuilder == InitBuilder /\ [][NextBuilder]_vars

----------------------------------------------------------------------------
(* What the operations are to compute                                      *)

ValidSearch == 1 <= Len(needle) /\ Len(needle) <= Len(haystack)

\* The starts i in 0..=|H|-|N| with H[i..i+|N|] == N
MatchStarts(H, N) ==
    {i \in 0..(Len(H) - Len(N)) : Slice(H, i, i + Len(N)) = N}

\* The matching starts whose window begins in one chunk and ends in the next
StraddleStarts(H, N) ==
    {i \in MatchStarts(H, N) :
        i \div ChunkWidth # (i + Len(N) - 1) \div ChunkWidth}

\* The position pairs (s, e), 0 <= s < e <= |H|
Spans(H) == {p \in (0..Len(H)) \X (0..Len(H)) : p[1] < p[2]}

\* The span holds every byte of the group.
HoldsGroup(H, G, p) ==
    \A k \in 1..Len(G) :
        \E i \in p[1]..(p[2] - 1) : At(H, i) = CharAsU8(G[k])

\* The reference pass of replace from position p: an occurrence of find is
\* replaced and skipped, any other byte is copied.
RECURSIVE ReplaceReference(_, _, _, _)
ReplaceReference(base, find, repl, p) ==
    IF p >= Len(base) THEN <<>>
    ELSE IF p + Len(find) <= Len(base) /\ Slice(base, p, p + Len(find)) = find
    THEN repl \o ReplaceReference(base, find, repl, p + Len(find))
    ELSE <<At(base, p)>> \o ReplaceReference(base, find, repl, p + 1)

\* The textual forms of the values, concatenated in order.
RECURSIVE TextOf(_)
TextOf(values) ==
    IF values = <<>> THEN <<>>
    ELSE to_string(Head(values)) \o TextOf(Tail(values))

----------------------------------------------------------------------------
(* Claims                                                                  *)

\* C1: for a needle N with 1 <= |N| <= |H|, find_all_exact returns exactly
\* the pairs (i, i+|N|) of the starts i where H[i..i+|N|] = N, each once, in
\* strictly ascending order of i, overlapping occurrences included (the
\* empty list when there is none).
C1_FindAllExactReturnsEveryOccurrence ==
    (op = "find_all_exact" /\ ValidSearch) =>
        /\ ret.kind = "ok"
        /\ LET m == ret.value
               starts == MatchStarts(haystack, needle)
           IN /\ Len(m) = Cardinality(starts)
              /\ \A k \in 1..Len(m) :
                    /\ m[k][1] \in starts
                    /\ m[k][2] = m[k][1] + Len(needle)
              /\ \A k \in 1..(Len(m) - 1) : m[k][1] < m[k + 1][1]

\* C1's case: find_all_exact has returned two occurrences that overlap.
C1_Witness ==
    /\ op = "find_all_exact" /\ ValidSearch /\ ret.kind = "ok"
    /\ \E k \in 1..(Len(ret.value) - 1) :
           ret.value[k + 1][1] < ret.value[k][2]

\* C2: for a needle N with 1 <= |N| <= |H|, contains_simd completes and
\* returns what the scalar contains returns, whatever the haystack's length.
C2_ContainsSimdAgreesWithContains ==
    (op = "contains_simd" /\ ValidSearch) =>
        /\ ret.kind = "ok"
        /\ ret.value = contains(haystack, needle).value

\* C3: for a needle N with 1 <= |N| <= |H|, |N| = 1 included,
\* substring_count_simd returns the number of spans find_all_exact returns.
C3_SubstringCountSimdCountsOccurrences ==
    (op = "substring_count_simd" /\ ValidSearch) =>
        /\ ret.kind = "ok"
        /\ ret.value = Len(find_all_exact(haystack, needle).value)

\* C4: count_chars_simd returns the map count_chars returns: the same keys
\* and the same count for each key.
C4_CountCharsSimdAgreesWithCountChars ==
    op = "count_chars_simd" => ret = count_chars(haystack, chars)

\* C5: for 1 <= |find| <= |base|, replace leaves in base the output of the
\* reference left-to-right pass, which substitutes every non-overlapping
\* occurrence, one that ends at the last byte of base included.
C5_ReplaceIsTheReferencePass ==
    (op = "replace" /\ ValidSearch) =>
        /\ ret.kind = "ok"
        /\ ret.value = ReplaceReference(haystack, needle, replacement, 0)

\* C6: the keys of substring_char_group_count's map are exactly the
\* contents of the non-empty spans of the haystack that hold every byte of
\* the group, and a key's value is the number of spans with that content.
C6_GroupCountTalliesQualifyingSpans ==
    op = "substring_char_group_count" =>
        /\ ret.kind = "ok"
        /\ DOMAIN ret.value =
               {Slice(haystack, p[1], p[2]) :
                    p \in {q \in Spans(haystack) :
                               HoldsGroup(haystack, chars, q)}}
        /\ \A key \in DOMAIN ret.value :
               ret.value[key] =
                   Cardinality({p \in Spans(haystack) :
                                   Slice(haystack, p[1], p[2]) = key})

\* C6's case: a content tallied twice, beside a span that is left out.
C6_Witness ==
    /\ op = "substring_char_group_count" /\ ret.kind = "ok"
    /\ \E key \in DOMAIN ret.value : ret.value[key] >= 2
    /\ \E p \in Spans(haystack) :
           Slice(haystack, p[1], p[2]) \notin DOMAIN ret.value

\* C7: the keys of count_chars's map are exactly the queried characters,
\* duplicates collapsed, and a key's value is the number of positions of
\* the haystack that hold it, 0 for a character that does not occur; an
\* empty query gives the empty map.
C7_CountCharsTalliesQueriedChars ==
    op = "count_chars" =>
        /\ ret.kind = "ok"
        /\ DOMAIN ret.value = Range(chars)
        /\ \A c \in Range(chars) :
               ret.value[c] =
                   Cardinality({i \in 0..(Len(haystack) - 1) :
                                   At(haystack, i) = c})

\* C7's case: a query that repeats a character that does not occur.
C7_Witness ==
    /\ op = "count_chars" /\ ret.kind = "ok"
    /\ Len(chars) > Cardinality(Range(chars))
    /\ Len(haystack) > 0
    /\ \E c \in DOMAIN ret.value : ret.value[c] = 0

C9_BuildReturnsAppendedText ==
    /\ full_string = TextOf(appended)
    /\ current_len = Len(full_string)
    /\ op = "build" => ret = Ok(TextOf(appended))

\* C9's case: a build after appends of an integer and of a string.
C9_Witness ==
    /\ op = "build" /\ Len(appended) >= 2
    /\ appended[1].type = "int" /\ appended[2].type = "str"
    /\ Len(ret.value) > 2

\* C10: with a needle longer than the haystack, contains, find_all_exact,
\* contains_simd and substring_count_simd fail their assertion and return
\* nothing.
C10_LongNeedleFailsAssertion ==
    (/\ op \in {"contains", "find_all_exact", "contains_simd",
                "substring_count_simd"}
     /\ Len(needle) > Len(haystack)) => ret = AssertFailed

\* C10's case: contains was called with a needle longer than a non-empty
\* haystack.
C10_Witness ==
    /\ op = "contains" /\ Len(haystack) > 0
    /\ Len(needle) > Len(haystack)
    /\ ret.kind = "assert"

\* C11: a call of contains, find_all_exact, contains_simd or
\* substring_count_simd with an empty needle fails its precondition
\* assertion, whatever the haystack.
C11_EmptyNeedleFailsAssertion ==
    (/\ op \in {"contains", "find_all_exact", "contains_simd",
                "substring_count_simd"}
     /\ Len(needle) = 0)
    => ret.kind = "assert"


\* C12: in substring_count_simd the zero padding of a short chunk never takes
\* part in a counted match: every lane added to the count is a start i with
\* i + |N| <= |H| whose window H[i, i+|N|) equals N, needles holding the byte
\* 0 included.
C12_CountedLanesAreOccurrences ==
    (/\ op = "substring_count_simd"
     /\ Len(needle) > 0 /\ Len(needle) <= Len(haystack))
    => /\ ret.kind = "ok"
       /\ \E w \in OobOutcomes :
              /\ substring_count_simd(haystack, needle, w) = ret
              /\ substring_count_simd_counted(haystack, needle, w)
                     \subseteq MatchStarts(haystack, needle)


\* C13: in count_chars_simd the padding of the last chunk is never counted:
\* for every haystack (empty, shorter than 64 bytes, a multiple of 64 long or
\* not) and every queried byte b, 0 included, the count reported for b is the
\* number of positions i < |H| with H[i] = b.
C13_CountIsOverHaystackPositions ==
    op = "count_chars_simd" =>
        /\ ret.kind = "ok"
        /\ \A b \in Range(chars) :
               b < U8Modulus =>
                   /\ b \in DOMAIN ret.value
                   /\ ret.value[b] =
                          Cardinality({i \in 0..(Len(haystack) - 1) :
                                          At(haystack, i) = b})


\* C14: for a valid (H, N) with an occurrence of N that starts in one chunk
\* and ends in the next, contains_simd returns true and substring_count_simd
\* returns a count that includes that occurrence.
C14_StraddlingMatchIsFound ==
    (/\ op \in {"contains_simd", "substring_count_simd"}
     /\ ValidSearch
     /\ StraddleStarts(haystack, needle) # {})
    => /\ ret.kind = "ok"
       /\ op = "contains_simd" => ret.value = TRUE
       /\ op = "substring_count_simd" =>
              \E w \in OobOutcomes :
                  /\ substring_count_simd(haystack, needle, w) = ret
                  /\ StraddleStarts(haystack, needle) \subseteq
                         substring_count_simd_counted(haystack, needle, w)


\* C15: the u8 lane counters of needle_count_simd never wrap modulo 256
\* before they are summed: for every haystack, one that holds the queried
\* byte at the same lane of 256 or more chunks included, the count returned
\* for a queried byte other than 0 is the number of positions that hold it.
C15_LaneCountersDoNotWrap ==
    (/\ op = "count_chars_simd"
     /\ \A c \in Range(chars) : CharAsU8(c) # 0)
    => /\ ret.kind = "ok"
       /\ \A c \in Range(chars) :
              ret.value[c] =
                  Cardinality({i \in 0..(Len(haystack) - 1) :
                                  At(haystack, i) = CharAsU8(c)})


\* C16: in substring_char_group_count the group check is monotone in the end
\* position: for a fixed start s the ends tallied form one range that reaches
\* |H| without gaps, their spans are keys of the map, and once a span fails
\* while the end shrinks every shorter span with the same start fails.
C16_TalliedEndsReachTheEnd ==
    op = "substring_char_group_count" =>
        /\ ret.kind = "ok"
        /\ \A s \in 0..(Len(haystack) - 1) :
               LET ends == group_tallied_ends(haystack, chars, s)
               IN /\ \/ ends = {}
                     \/ \E m \in (s + 1)..Len(haystack) :
                            ends = m..Len(haystack)
                  /\ \A e \in ends :
                         Slice(haystack, s, e) \in DOMAIN ret.value
                  /\ \A e \in ((s + 1)..Len(haystack)) \ ends :
                         \A shorter \in (s + 1)..e : shorter \notin ends

\* C16's case: a start with a tallied end and a shorter end that fails, for a
\* group of two different bytes.
C16_Witness ==
    /\ op = "substring_char_group_count" /\ ret.kind = "ok"
    /\ Cardinality({CharAsU8(c) : c \in Range(chars)}) >= 2
    /\ \E s \in 0..(Len(haystack) - 1) :
           LET ends == group_tallied_ends(haystack, chars, s)
           IN /\ ends # {}
              /\ \E e \in (s + 1)..Len(haystack) : e \notin ends
              /\ \A e \in ends : Slice(haystack, s, e) \in DOMAIN ret.value

============================================================================
